---------------------------- MODULE Spec2Model ----------------------------
(***************************************************************************)
(* SoundML audio reader (src/io/cio/read.hxx, src/io/cio/common.hxx).      *)
(*                                                                         *)
(* One call of read_audio_file<T> is modelled as a state machine: the      *)
(* file is opened and validated, a reader strategy is selected             *)
(* (SndfileReader = pass-through, SoXrReader = resampling), the reader's   *)
(* process_whole runs its read / process / flush loop one iteration per    *)
(* step, and the reader is deleted before the call returns.                *)
(*                                                                         *)
(* libsndfile (the decoder) and soxr (the resampler) are external          *)
(* libraries.  They are modelled by the contracts the code relies on:      *)
(*   - readf returns between 0 and the requested number of frames and may  *)
(*     set the error of the handle, which the next read clears; the        *)
(*     nominal frame count frames() need not equal what readf delivers;    *)
(*   - soxr_process consumes idone <= ilen frames, delivers odone frames   *)
(*     out of what it holds, and in flush mode returns odone = 0 when it   *)
(*     has nothing left or no room to write to.                            *)
(*                                                                         *)
(* Several specifications share the module.  Spec is one call of           *)
(* caml_read_audio_file.  WriteSpec is one call of caml_write_audio_file   *)
(* (write.hxx) on what a pass-through read returned, followed by a read of *)
(* the written file.  ConcSpec is two calls of read_audio_file on two      *)
(* different files, interleaved.  RecipeSpec is the choice of the quality  *)
(* recipe in the constructor of SoXrReader, StretchSpec one call of a      *)
(* stretch / pitch-shift stub (rubberband_stubs.cxx).  The variables a     *)
(* specification does not use keep the values NoReadCall, NoWriteCall,     *)
(* NoConcCalls, NoConstructions, NoStretchCall give them.                  *)
(*                                                                         *)
(* Frames and samples are counted exactly as in the code; sample values    *)
(* are tags (see ResamplerSample, DecodedSample, ZERO, UNINIT) so that     *)
(* order and provenance of the buffer contents can be stated.              *)
(***************************************************************************)
EXTENDS Integers, Sequences, FiniteSets, TLC

(***************************************************************************)
(* Bounds of the model.                                                    *)
(***************************************************************************)
\* largest nominal frame count sndfile.frames() reports
MaxNominal == 3
\* largest number of frames the decoder actually delivers over a call
MaxDecoded == 4
\* largest sample rate (of the file and of the target), in model units
MaxRate == 2
\* largest channel count
MaxChannels == 2
\* frames per readf request; stands for SOUNDML_BUFFER_SIZE (4096 in
\* common.hxx:22), scaled down so that multi-chunk reads are enumerable
SOUNDML_BUFFER_SIZE == 2
\* largest number of output frames the resampler holds back at any time
MaxPending == 2
\* largest format code of a file that is written (codes 1..MaxFormat are
\* the formats libsndfile can write)
MaxFormat == 2
\* largest nominal frame count of a file read by one of two concurrent calls
MaxConcFrames == 3

(***************************************************************************)
(* Program constants.                                                      *)
(***************************************************************************)
\* resampling_t (common.hxx:129-144)
RS_NONE == 0
RS_SOXR_QQ == 1
RS_SOXR_LQ == 2
RS_SOXR_MQ == 3
RS_SOXR_HQ == 4
RS_SOXR_VHQ == 5
\* the last enumerator; 6..11 are the resamplers marked "TODO: implement"
RS_SRC_LINEAR == 11
\* libsndfile error codes SF_ERR_* (the prefix SF_ is reserved in TLA+)
SNDFILE_ERR_NO_ERROR == 0
SNDFILE_ERR_UNRECOGNISED_FORMAT == 1
SNDFILE_ERR_SYSTEM == 2
SNDFILE_ERR_MALFORMED_FILE == 3
SNDFILE_ERR_UNSUPPORTED_ENCODING == 4
\* a code of libsndfile beyond the public SF_ERR_* ones
SNDFILE_ERR_OTHER == 5

\* sample tags
ZERO == 0
UNINIT == -1

ResamplingTypes == {RS_NONE, RS_SOXR_VHQ}
\* the codes sndfile.error() reports for a file that did not open
SfErrors ==
    {SNDFILE_ERR_UNRECOGNISED_FORMAT, SNDFILE_ERR_SYSTEM,
     SNDFILE_ERR_MALFORMED_FILE, SNDFILE_ERR_UNSUPPORTED_ENCODING,
     SNDFILE_ERR_OTHER}
\* file names; the name of the file has no part in what read_audio_file
\* does once it is opened, so a read call is explored under the first one
Filenames == {"a.wav", "b.flac"}
ReadFilename == "a.wav"

VARIABLES
    \* ---- the file as libsndfile reports it, and the call's arguments
    filename,        \* the file name argument
    sfinfo,          \* [err, frames, channels, samplerate, format]
    res_typ,         \* resampling_t argument
    sample_rate,     \* target sample rate argument
    fix,             \* padding argument
    \* ---- read_audio_file
    pc,              \* position of the call
    sf_refs,         \* SndfileHandle reference count of the call's file
    sf_open,         \* the SNDFILE* is open
    sf_closes,       \* number of sf_close calls
    sf_error,        \* sndfile.error(): the error the last call on the handle left
    reader,          \* [kind, fix, alive, deletes]
    result,          \* what read_audio_file returns
    \* ---- process_whole
    bigarray,        \* the destination: sequence of samples
    ba_allocs,       \* number of caml_ba_alloc calls
    frames,          \* SoXrReader: estimated frames = capacity in frames
    ba_output,       \* SoXrReader: write cursor, as a sample offset
    read_buffer,     \* [state, frees]
    total_read,
    total_generated,
    input_finished,
    \* ---- the resampler handle and what the resampler holds
    resampler,       \* [state, deletes, misuse]
    rs_pending,      \* output frames the resampler still has to deliver
    rs_consumed,     \* sum of idone over all process calls
    \* ---- observations
    call,            \* the last soxr_process call
    ncalls,          \* number of soxr_process calls
    nreads,          \* number of readf calls
    oob,             \* the writes that targeted an offset >= capacity
    overran,         \* the resampler returned odone > olen
    zero_filled,     \* number of samples written by the padding fill
    first_failure,   \* the first failing call: [kind, code, nreads, ncalls]
    frames_decoded,  \* sum of the frame counts readf returned
    \* ---- caml_read_audio_file, the stub the host calls
    runtime_lock,    \* the host's runtime lock: "held" or "released"
    exn,             \* the host exception raised: [tag, msg]
    returns,         \* the tuple returned to the host
    \* ---- caml_write_audio_file, and the round trip around it
    w_pc,            \* position of the write call
    w_filename,      \* the file name argument
    w_source,        \* the file the written data was read from
    w_ba_data,       \* the ba_data argument: sequence of samples
    w_metadata,      \* the metadata argument: the tuple the reader returned
    w_vals,          \* [nframes, sample_rate, channels, format] as extracted
    w_sf,            \* the SndfileHandle: [open, refs, closes, error]
    w_file,          \* the file on disk: [frames, channels, samplerate, format, samples]
    w_written,       \* what sndfile.writef returned
    w_result,        \* what AudioWriter::write returned
    w_exn,           \* the host exception raised by the write stub
    w_oob,           \* writef read beyond the end of ba_data
    w_second,        \* what reading the written file again returns
    \* ---- two concurrent read calls, on two different files
    c_file,          \* per call: the file [id, frames, channels, samplerate, format]
    c_args,          \* per call: [res_typ, sample_rate, fix]
    c_st,            \* per call: the locals of read_audio_file and process_whole
    c_heap,          \* per native block: [read_buffer, rs_input, rs_delivered]
    \* ---- two constructions of a SoXrReader (read.hxx:155-169)
    q_quality,       \* per construction: the resampling_t handed to the constructor
    q_recipe,        \* per construction: the recipe of quality_spec, or "unset"
    \* ---- one call of a stretch / pitch-shift stub (rubberband_stubs.cxx)
    rb_entry,        \* "time_stretch" or "pitch_shift"
    rb_input,        \* v_input: the bigarray [dims, data] a read returned
    rb_channels,     \* v_channels
    rb_pc,           \* position in the stub
    rb_fed,          \* per channel: the samples inputChannels[c] points at
    rb_size,         \* outputSize
    rb_retrieved,    \* retrievedSamples
    rb_output,       \* v_output: the bigarray [dims, data] the stub returns
    rb_exn           \* the host exception raised by the stub

vars == << filename, sfinfo, res_typ, sample_rate, fix, pc, sf_refs, sf_open, sf_closes,
           sf_error, reader, result, bigarray, ba_allocs, frames, ba_output,
           read_buffer, total_read, total_generated, input_finished,
           resampler, rs_pending, rs_consumed, call, ncalls, nreads, oob,
           overran, zero_filled, first_failure, frames_decoded, runtime_lock,
           exn, returns,
           w_pc, w_filename, w_source, w_ba_data, w_metadata, w_vals, w_sf,
           w_file, w_written, w_result, w_exn, w_oob, w_second,
           c_file, c_args, c_st, c_heap, q_quality, q_recipe,
           rb_entry, rb_input, rb_channels, rb_pc, rb_fed, rb_size,
           rb_retrieved, rb_output, rb_exn >>

inputVars == << filename, sfinfo, res_typ, sample_rate, fix >>
stubVars == << runtime_lock, exn, returns >>
fileVars == << sf_refs, sf_open, sf_closes >>
loopVars == << total_read, total_generated, input_finished, ba_output >>
soxrVars == << resampler, rs_pending, rs_consumed, call, ncalls, overran >>
readVars == << inputVars, pc, fileVars, sf_error, reader, result, bigarray,
               ba_allocs, frames, read_buffer, loopVars, soxrVars, nreads, oob,
               zero_filled, first_failure, frames_decoded, stubVars >>
writeArgs == << w_filename, w_source, w_ba_data, w_metadata >>
writeVars == << w_pc, writeArgs, w_vals, w_sf, w_file, w_written, w_result,
                w_exn, w_oob, w_second >>
concInputs == << c_file, c_args >>
concVars == << concInputs, c_st, c_heap >>
recipeVars == << q_quality, q_recipe >>
\* the variables of the specifications that follow the three call models
stretchArgs == << rb_entry, rb_input, rb_channels >>
stretchVars == << stretchArgs, rb_pc, rb_fed, rb_size, rb_retrieved, rb_output,
                  rb_exn >>
laterVars == << recipeVars, stretchVars >>

(***************************************************************************)
(* Arithmetic.                                                             *)
(***************************************************************************)
Min(a, b) == IF a <= b THEN a ELSE b

\* std::ceil((n * target_sr) / input_sr) for n >= 0, target_sr >= 0 and
\* input_sr > 0 (read.hxx:178 and read.hxx:298); the double quotient of
\* integers of this size is exact enough for ceil to be the integer ceiling
CeilFrames(n, target_sr, input_sr) ==
    (n * target_sr + input_sr - 1) \div input_sr

(***************************************************************************)
(* Values.                                                                 *)
(***************************************************************************)
NoError == [type |-> "none", payload |-> "none", code |-> 0, msg |-> ""]
\* Error(int, ErrorType) and Error(std::string, ErrorType) (common.hxx:51)
IntError(c, t) == [type |-> t, payload |-> "int", code |-> c, msg |-> ""]
StrError(m, t) == [type |-> t, payload |-> "string", code |-> 0, msg |-> m]

NoMetadata ==
    [frames |-> 0, channels |-> 0, sample_rate |-> 0, padded_frames |-> 0,
     format |-> 0]

NoResult == [status |-> "none", error |-> NoError, metadata |-> NoMetadata,
             buffer |-> << >>]
\* std::unexpected(Error)
Unexpected(e) == [status |-> "error", error |-> e, metadata |-> NoMetadata,
                  buffer |-> << >>]
\* AudioData(bigarray, metadata)
AudioData(b, m) == [status |-> "ok", error |-> NoError, metadata |-> m,
                    buffer |-> b]

\* no exception raised; nothing returned
NoExn == [tag |-> "none", msg |-> << >>]
NoReturn == << >>

\* no file on disk; no values extracted; no SndfileHandle
NoFile == [frames |-> 0, channels |-> 0, samplerate |-> 0, format |-> 0,
           samples |-> << >>]
NoVals == [nframes |-> 0, sample_rate |-> 0, channels |-> 0, format |-> 0]
NoHandle == [open |-> FALSE, refs |-> 0, closes |-> 0, error |-> 0]

\* no call of the decoder or of the resampler has failed
NoFailure == [kind |-> "none", code |-> 0, nreads |-> 0, ncalls |-> 0]

\* the record of a failing call, kept if it is the first of the invocation;
\* reads and calls count the readf and soxr_process calls made up to it
NoteFailure(first, kind, code, reads, calls) ==
    IF first.kind # "none" THEN first
    ELSE [kind |-> kind, code |-> code, nreads |-> reads, ncalls |-> calls]

NoCall == [in_null |-> TRUE, ilen |-> 0, out_offset |-> 0, olen |-> 0,
           idone |-> 0, odone |-> 0, failed |-> FALSE, generated_before |-> 0,
           read_before |-> 0]

\* the tag of the k-th sample (k >= 1) the resampler delivers
ResamplerSample(k) == k
\* the tag of the k-th sample (k >= 1) the decoder delivers
DecodedSample(k) == k

(***************************************************************************)
(* Init: the file's header as reported, and the arguments of the call.     *)
(* A file that failed to open reports all its fields as 0.                 *)
(***************************************************************************)
SfInfos ==
    { [err |-> 0, frames |-> f, channels |-> c, samplerate |-> r, format |-> m] :
        f \in -1..MaxNominal, c \in -1..MaxChannels, r \in -1..MaxRate,
        m \in -1..1 }
    \cup
    { [err |-> e, frames |-> 0, channels |-> 0, samplerate |-> 0, format |-> 0] :
        e \in SfErrors }

\* the locals of a read call that has not started
FreshRead ==
    /\ sf_refs = 0
    /\ sf_open = FALSE
    /\ sf_closes = 0
    /\ sf_error = 0
    /\ reader = [kind |-> "none", fix |-> TRUE, alive |-> FALSE, deletes |-> 0]
    /\ result = NoResult
    /\ bigarray = << >>
    /\ ba_allocs = 0
    /\ frames = 0
    /\ ba_output = 0
    /\ read_buffer = [state |-> "none", frees |-> 0]
    /\ total_read = 0
    /\ total_generated = 0
    /\ input_finished = FALSE
    /\ resampler = [state |-> "none", deletes |-> 0, misuse |-> FALSE]
    /\ rs_pending = 0
    /\ rs_consumed = 0
    /\ call = NoCall
    /\ ncalls = 0
    /\ nreads = 0
    /\ oob = {}
    /\ overran = FALSE
    /\ zero_filled = 0
    /\ first_failure = NoFailure
    /\ frames_decoded = 0
    \* the host calls the stub with its runtime lock held
    /\ runtime_lock = "held"
    /\ exn = NoExn
    /\ returns = NoReturn

\* no write call is made
NoWriteCall ==
    /\ w_pc = "idle"
    /\ w_filename = ReadFilename
    /\ w_source = NoFile
    /\ w_ba_data = << >>
    /\ w_metadata = << >>
    /\ w_vals = NoVals
    /\ w_sf = NoHandle
    /\ w_file = NoFile
    /\ w_written = 0
    /\ w_result = NoResult
    /\ w_exn = NoExn
    /\ w_oob = FALSE
    /\ w_second = NoReturn

\* no concurrent calls are made
NoConcCalls ==
    /\ c_file = << >>
    /\ c_args = << >>
    /\ c_st = << >>
    /\ c_heap = << >>

\* no reader is constructed on its own
NoConstructions ==
    /\ q_quality = << >>
    /\ q_recipe = << >>

\* a bigarray that was never allocated
NoBigarray == [dims |-> << >>, data |-> << >>]

\* no stretch or pitch-shift call is made
NoStretchCall ==
    /\ rb_entry = "none"
    /\ rb_input = NoBigarray
    /\ rb_channels = 0
    /\ rb_pc = "idle"
    /\ rb_fed = << >>
    /\ rb_size = 0
    /\ rb_retrieved = 0
    /\ rb_output = NoBigarray
    /\ rb_exn = NoExn

\* nothing but the three call models runs
NoLaterCalls ==
    /\ NoConstructions
    /\ NoStretchCall

Init ==
    /\ filename = ReadFilename
    /\ sfinfo \in SfInfos
    /\ res_typ \in ResamplingTypes
    /\ sample_rate \in 0..MaxRate
    /\ fix \in BOOLEAN
    /\ pc = "start"
    /\ FreshRead
    /\ NoWriteCall
    /\ NoConcCalls
    /\ NoLaterCalls

(***************************************************************************)
(* The destination buffer.                                                 *)
(***************************************************************************)
\* caml_ba_alloc(..., NULL, dims): dims[0] * dims[1] samples, not initialised
\* (read.hxx:79-99 and read.hxx:181-201)
BaAlloc(nframes, channels) == [i \in 1..(nframes * channels) |-> UNINIT]

\* a write of Len(vals) samples starting at sample offset `offset` (0-based)
\* of buf; the part that falls inside the buffer
WriteAt(buf, offset, vals) ==
    [i \in 1..Len(buf) |->
        IF i > offset /\ i <= offset + Len(vals) THEN vals[i - offset]
        ELSE buf[i]]

\* the write targets a sample offset at or beyond the capacity of buf
OutOfBounds(buf, offset, count) == count > 0 /\ offset + count > Len(buf)

\* the outcomes of a write: inside the buffer the call goes on to `next`;
\* a write outside it is undefined behaviour, after which the process may
\* go on as well as abort
AfterWrite(isOob, next) == IF isOob THEN {next, "crashed"} ELSE {next}

(***************************************************************************)
(* read_audio_file: open and validate (read.hxx:343-348).                  *)
(***************************************************************************)
\* mutant of Malformed: only the frame count validated
MalformedFramesOnly(info) == info.frames <= 0

\* read.hxx:347
Malformed(info) ==
    info.frames <= 0 \/ info.channels <= 0 \/ info.samplerate <= 0
        \/ info.format <= 0

read_audio_file_open ==
    /\ pc = "start"
    /\ IF sfinfo.err # SNDFILE_ERR_NO_ERROR
       THEN \* the handle holds no SNDFILE*; it dies with the early return
            /\ result' = Unexpected(IntError(sfinfo.err, "SNDFILE_ERR"))
            /\ first_failure' = NoteFailure(first_failure, "open", sfinfo.err,
                                            nreads, ncalls)
            /\ pc' = "returned"
            /\ UNCHANGED fileVars
       ELSE IF Malformed(sfinfo)
       THEN \* the only handle dies with the early return: sf_close
            /\ result' = Unexpected(IntError(SNDFILE_ERR_MALFORMED_FILE, "SNDFILE_ERR"))
            /\ pc' = "returned"
            /\ sf_refs' = 0
            /\ sf_open' = FALSE
            /\ sf_closes' = sf_closes + 1
            /\ UNCHANGED first_failure
       ELSE /\ sf_refs' = 1
            /\ sf_open' = TRUE
            /\ pc' = "select"
            /\ UNCHANGED << result, sf_closes, first_failure >>
    /\ UNCHANGED << inputVars, sf_error, reader, bigarray, ba_allocs, frames,
                    read_buffer, loopVars, soxrVars, nreads, oob, zero_filled >>
    /\ UNCHANGED << frames_decoded, stubVars, writeVars, concVars, laterVars >>

(***************************************************************************)
(* read_audio_file: strategy selection (read.hxx:350-357).                 *)
(***************************************************************************)
\* mutant of NeedsResampling: the rate comparison dropped
NeedsResamplingAnyRate(typ, rate, info) == typ # RS_NONE

\* read.hxx:351
NeedsResampling(typ, rate, info) == typ # RS_NONE /\ rate # info.samplerate

read_audio_file_select ==
    /\ pc = "select"
    /\ IF NeedsResampling(res_typ, sample_rate, sfinfo)
       THEN /\ reader' = [kind |-> "SoXrReader", fix |-> fix, alive |-> TRUE,
                          deletes |-> 0]
            /\ pc' = "soxr_alloc"
       ELSE /\ reader' = [kind |-> "SndfileReader", fix |-> TRUE, alive |-> TRUE,
                          deletes |-> 0]
            /\ pc' = "sndfile_alloc"
    \* the reader keeps its own copy of the SndfileHandle
    /\ sf_refs' = sf_refs + 1
    /\ UNCHANGED << inputVars, sf_open, sf_closes, sf_error, result, bigarray,
                    ba_allocs, frames, read_buffer, loopVars, soxrVars, nreads,
                    oob, zero_filled, first_failure >>
    /\ UNCHANGED << frames_decoded, stubVars, writeVars, concVars, laterVars >>

(***************************************************************************)
(* The decoder: one sndfile.readf(read_buffer, SOUNDML_BUFFER_SIZE).       *)
(* It returns n frames, 0 <= n <= SOUNDML_BUFFER_SIZE, and leaves the      *)
(* handle's error at e.  sndfile.error() reports the error of the last     *)
(* call made on the handle: a read starts by clearing the error `err` an   *)
(* earlier call left, so e does not depend on it, and a read that fails    *)
(* part-way returns the frames decoded before the failure (n > 0 with      *)
(* e # 0).  The frames delivered over the call are not tied to the         *)
(* nominal count sfinfo.frames.                                            *)
(***************************************************************************)
\* if (sndfile.error()) (read.hxx:238), if (int err = sndfile.error(); err)
\* (read.hxx:121)
ReadFailed(err) == err # SNDFILE_ERR_NO_ERROR

ReadfOutcomes(delivered, err) ==
    { [n |-> n, err |-> e] :
        n \in 0..Min(SOUNDML_BUFFER_SIZE, MaxDecoded - delivered),
        e \in {SNDFILE_ERR_NO_ERROR, SNDFILE_ERR_SYSTEM} }

\* the samples of n decoded frames following `delivered` frames
DecodedChunk(delivered, n, channels) ==
    [j \in 1..(n * channels) |-> DecodedSample(delivered * channels + j)]

(***************************************************************************)
(* Scope exits of process_whole.                                           *)
(***************************************************************************)
\* mutant of FreeReadBuffer: a return path that forgets std::free
FreeReadBufferForgotten(rb) == rb

\* std::free(read_buffer)
FreeReadBuffer(rb) == [state |-> "freed", frees |-> rb.frees + 1]

\* mutant of ResamplerScopeExit: the handle kept as a raw soxr_t, never deleted
ResamplerScopeExitLeak(r) == r

\* destructor of std::unique_ptr<struct soxr, soxr_deleter> (read.hxx:222-224):
\* it runs on every return that follows its declaration
ResamplerScopeExit(r) ==
    [r EXCEPT !.state = "deleted", !.deletes = @ + 1]

(***************************************************************************)
(* SndfileReader<T>::process_whole (read.hxx:73-132): pass-through.        *)
(***************************************************************************)
\* mutant of SndfileMetadata: the nominal count reported as frames
SndfileMetadataNominal(nread, info) ==
    [frames |-> info.frames, channels |-> info.channels,
     sample_rate |-> info.samplerate, padded_frames |-> info.frames,
     format |-> info.format]

\* AudioMetadata metadata{total_read, channels, sample_rate, total_read, format}
SndfileMetadata(nread, info) ==
    [frames |-> nread, channels |-> info.channels,
     sample_rate |-> info.samplerate, padded_frames |-> nread,
     format |-> info.format]

\* read.hxx:76-107: allocate the destination and the read buffer
sndfile_alloc ==
    /\ pc = "sndfile_alloc"
    /\ bigarray' = BaAlloc(sfinfo.frames, sfinfo.channels)
    /\ ba_allocs' = ba_allocs + 1
    /\ \/ /\ read_buffer' = [read_buffer EXCEPT !.state = "allocated"]
          /\ pc' = "sndfile_loop"
          /\ UNCHANGED result
       \/ \* aligned_alloc returned nullptr (read.hxx:101-102)
          /\ result' = Unexpected(IntError(-1, "SOUNDML_ERR"))
          /\ pc' = "delete"
          /\ UNCHANGED read_buffer
    /\ UNCHANGED << inputVars, fileVars, sf_error, reader, frames, loopVars,
                    soxrVars, nreads, oob, zero_filled, first_failure >>
    /\ UNCHANGED << frames_decoded, stubVars, writeVars, concVars, laterVars >>

\* read.hxx:109-119: one iteration of the copy loop, readf returned n > 0
sndfile_read_chunk ==
    /\ pc = "sndfile_loop"
    /\ \E rd \in ReadfOutcomes(total_read, sf_error) :
        LET sample_offset == total_read * sfinfo.channels
            count == rd.n * sfinfo.channels
            isOob == OutOfBounds(bigarray, sample_offset, count)
        IN  /\ rd.n > 0
            /\ sf_error' = rd.err
            /\ first_failure' =
                  IF rd.err # SNDFILE_ERR_NO_ERROR
                  THEN NoteFailure(first_failure, "readf", rd.err, nreads + 1,
                                   ncalls)
                  ELSE first_failure
            /\ bigarray' = WriteAt(bigarray, sample_offset,
                                   DecodedChunk(total_read, rd.n, sfinfo.channels))
            /\ oob' = IF isOob THEN oob \cup {"memcpy"} ELSE oob
            /\ total_read' = total_read + rd.n
            /\ frames_decoded' = frames_decoded + rd.n
            /\ pc' \in AfterWrite(isOob, "sndfile_loop")
    /\ nreads' = nreads + 1
    /\ UNCHANGED << inputVars, fileVars, reader, result, ba_allocs, frames,
                    read_buffer, total_generated, input_finished, ba_output,
                    soxrVars, zero_filled >>
    /\ UNCHANGED << stubVars, writeVars, concVars, laterVars >>

\* read.hxx:109, 121-131: readf returned 0; error check and return
sndfile_finish ==
    /\ pc = "sndfile_loop"
    /\ \E rd \in ReadfOutcomes(total_read, sf_error) :
        /\ rd.n = 0
        /\ sf_error' = rd.err
        /\ frames_decoded' = frames_decoded + rd.n
        /\ first_failure' =
              IF rd.err # SNDFILE_ERR_NO_ERROR
              THEN NoteFailure(first_failure, "readf", rd.err, nreads + 1, ncalls)
              ELSE first_failure
        /\ result' = IF ReadFailed(rd.err)
                     THEN Unexpected(IntError(rd.err, "SNDFILE_ERR"))
                     ELSE AudioData(bigarray, SndfileMetadata(total_read, sfinfo))
    /\ read_buffer' = FreeReadBuffer(read_buffer)
    /\ nreads' = nreads + 1
    /\ pc' = "delete"
    /\ UNCHANGED << inputVars, fileVars, reader, bigarray, ba_allocs, frames,
                    loopVars, soxrVars, oob, zero_filled >>
    /\ UNCHANGED << stubVars, writeVars, concVars, laterVars >>

(***************************************************************************)
(* The resampler: one soxr_process(resampler, in, ilen, &idone, out, olen, *)
(* &odone).  `pending` is the number of output frames the resampler holds  *)
(* and has not delivered yet.  With input it consumes idone <= ilen        *)
(* frames, which may add to what it holds, and delivers any part of it     *)
(* that fits in olen.  In flush mode (in = NULL) it delivers at least one  *)
(* frame while it holds some and olen > 0, and odone = 0 otherwise.  A     *)
(* resampler that breaks the contract delivers one frame more than olen.   *)
(* The call may also fail, with or without output written.                 *)
(***************************************************************************)
ProcessOutcomes(in_null, ilen, olen, pending) ==
    LET Consumed == IF in_null THEN {0} ELSE 0..ilen
        Held(i) == IF i = 0 THEN {pending} ELSE pending..MaxPending
        Within(have) ==
            IF in_null
            THEN IF have = 0 \/ olen = 0 THEN {0} ELSE 1..Min(olen, have)
            ELSE 0..Min(olen, have)
        Beyond == {olen + 1}
        Left(have, o) == IF o >= have THEN 0 ELSE have - o
    IN  UNION { UNION { { [failed |-> FALSE, idone |-> i, odone |-> o,
                           pending |-> Left(have, o)] :
                            o \in Within(have) \cup Beyond } :
                        have \in Held(i) } :
                i \in Consumed }
        \cup
        \* a failing call may have written a frame before it failed
        { [failed |-> TRUE, idone |-> 0, odone |-> o, pending |-> pending] :
            o \in 0..Min(olen, 1) }

\* the samples of n frames the resampler delivers after `delivered` frames
ResampledChunk(delivered, n, channels) ==
    [j \in 1..(n * channels) |-> ResamplerSample(delivered * channels + j)]

(***************************************************************************)
(* SoXrReader<T>::process_whole (read.hxx:175-323): resampling.            *)
(***************************************************************************)
\* mutant of EstimatedFrames: the quotient truncated instead of rounded up
EstimatedFramesTruncated(info, target_sr) ==
    (info.frames * target_sr) \div info.samplerate

\* read.hxx:178
EstimatedFrames(info, target_sr) ==
    CeilFrames(info.frames, target_sr, info.samplerate)

\* read.hxx:258
RemainingOutputFrames(capacity, generated) == capacity - generated

\* mutant of AdvanceCursor: the cursor advanced by frames, not by samples
AdvanceCursorByFrames(cursor, odone, channels) == cursor + odone

\* read.hxx:283: ba_output += odone * channels
AdvanceCursor(cursor, odone, channels) == cursor + odone * channels

\* read.hxx:298
AccurateFrames(nread, target_sr, info) ==
    CeilFrames(nread, target_sr, info.samplerate)

\* mutant of PaddingFrames: the fill performed whatever `fix` says
PaddingFramesAlways(do_fix, generated, accurate) ==
    IF generated < accurate THEN accurate - generated ELSE 0

\* read.hxx:301-305: the number of frames the padding fill writes
PaddingFrames(do_fix, generated, accurate) ==
    IF do_fix /\ generated < accurate THEN accurate - generated ELSE 0

\* mutant of SoXrMetadata: the native rate reported instead of the target
SoXrMetadataNativeRate(do_fix, generated, accurate, target_sr, info) ==
    [frames |-> generated, channels |-> info.channels,
     sample_rate |-> info.samplerate,
     padded_frames |-> IF do_fix THEN accurate ELSE generated,
     format |-> info.format]

\* read.hxx:315-320
SoXrMetadata(do_fix, generated, accurate, target_sr, info) ==
    [frames |-> generated, channels |-> info.channels,
     sample_rate |-> target_sr,
     padded_frames |-> IF do_fix THEN accurate ELSE generated,
     format |-> info.format]

\* read.hxx:178-205: estimate, allocate the destination, clear the counters
soxr_alloc ==
    /\ pc = "soxr_alloc"
    /\ frames' = EstimatedFrames(sfinfo, sample_rate)
    /\ bigarray' = BaAlloc(frames', sfinfo.channels)
    /\ ba_allocs' = ba_allocs + 1
    /\ ba_output' = 0
    /\ total_read' = 0
    /\ total_generated' = 0
    /\ pc' = "soxr_create"
    /\ UNCHANGED << inputVars, fileVars, sf_error, reader, result, read_buffer,
                    input_finished, soxrVars, nreads, oob, zero_filled,
                    first_failure >>
    /\ UNCHANGED << frames_decoded, stubVars, writeVars, concVars, laterVars >>

\* mutant of SoxrCreateError: the failure reported as an internal error
SoxrCreateErrorInternal ==
    Unexpected(StrError("soxr_create failed", "SOUNDML_ERR"))

\* read.hxx:217-220: Error(error_msg, SOXR_ERR)
SoxrCreateError == Unexpected(StrError("soxr_create failed", "SOXR_ERR"))

\* read.hxx:207-227: soxr_create, the owning unique_ptr, the read buffer.
\* soxr rejects an output rate that is not positive; it may fail otherwise.
soxr_create ==
    /\ pc = "soxr_create"
    /\ \/ /\ sample_rate > 0
          /\ resampler' = [resampler EXCEPT !.state = "live"]
          /\ read_buffer' = [read_buffer EXCEPT !.state = "allocated"]
          /\ input_finished' = FALSE
          /\ pc' = "soxr_loop"
          /\ UNCHANGED << result, first_failure >>
       \/ /\ result' = SoxrCreateError
          /\ first_failure' = NoteFailure(first_failure, "soxr_create", 0,
                                          nreads, ncalls)
          /\ pc' = "delete"
          /\ UNCHANGED << resampler, read_buffer, input_finished >>
    /\ UNCHANGED << inputVars, fileVars, sf_error, reader, bigarray, ba_allocs,
                    frames, ba_output, total_read, total_generated, rs_pending,
                    rs_consumed, call, ncalls, overran, nreads, oob,
                    zero_filled >>
    /\ UNCHANGED << frames_decoded, stubVars, writeVars, concVars, laterVars >>

\* mutant of InputIsNull: the read buffer handed over whenever a read was made
InputIsNullWhenNoRead(did_read, frames_read) == ~did_read

\* read.hxx:230-250: current_in stays nullptr unless this iteration read
\* at least one frame
InputIsNull(did_read, frames_read) == ~(did_read /\ frames_read > 0)

\* mutant of EstimateInsufficient: the check before soxr_process left out
EstimateInsufficientUnchecked(remaining, finished) == FALSE

\* read.hxx:260
EstimateInsufficient(remaining, finished) == remaining = 0 /\ ~finished

\* mutant of OverflowDetected: a full destination taken for an overflow
OverflowDetectedAtCapacity(generated, capacity) == generated >= capacity

\* read.hxx:287
OverflowDetected(generated, capacity) == generated > capacity

\* mutant of LoopBreak: the loop left on any call that produced nothing
LoopBreakOnNoOutput(finished, odone) == odone = 0

\* read.hxx:293
LoopBreak(finished, odone) == finished /\ odone = 0

\* a return of process_whole after the unique_ptr was declared: the read
\* buffer is freed by hand, the resampler by the unique_ptr's destructor
SoXrReturn(res, r, isOob) ==
    /\ pc' \in AfterWrite(isOob, "delete")
    /\ result' = IF pc' = "crashed" THEN result ELSE res
    /\ read_buffer' = FreeReadBuffer(read_buffer)
    /\ resampler' = ResamplerScopeExit(r)

\* read.hxx:228-295: one iteration of the read / process / flush loop
soxr_iteration ==
    /\ pc = "soxr_loop"
    /\ \E rd \in (IF input_finished
                  THEN {[n |-> 0, err |-> sf_error]}
                  ELSE ReadfOutcomes(total_read, sf_error)) :
        LET did_read == ~input_finished
            read_failed == did_read /\ ReadFailed(rd.err)
            finished == input_finished \/ rd.n = 0
            in_null == InputIsNull(did_read, rd.n)
            ilen == IF in_null THEN 0 ELSE rd.n
            nread == total_read + rd.n
            remaining == RemainingOutputFrames(frames, total_generated)
            used == [resampler EXCEPT !.misuse = @ \/ resampler.state # "live"]
        IN  /\ nreads' = nreads + (IF did_read THEN 1 ELSE 0)
            /\ frames_decoded' = frames_decoded + rd.n
            /\ sf_error' = rd.err
            /\ IF read_failed
               THEN \* read.hxx:238-242
                    /\ SoXrReturn(Unexpected(IntError(rd.err, "SNDFILE_ERR")),
                                  resampler, FALSE)
                    /\ first_failure' = NoteFailure(first_failure, "readf",
                                                    rd.err, nreads', ncalls)
                    /\ UNCHANGED << loopVars, bigarray, oob, rs_pending,
                                    rs_consumed, call, ncalls, overran >>
               ELSE IF EstimateInsufficient(remaining, finished)
               THEN \* read.hxx:260-264
                    /\ SoXrReturn(Unexpected(StrError(
                           "Output buffer insufficient based on estimate",
                           "SOUNDML_ERR")), resampler, FALSE)
                    /\ first_failure' = NoteFailure(first_failure, "capacity",
                                                    0, nreads', ncalls)
                    /\ total_read' = nread
                    /\ input_finished' = finished
                    /\ UNCHANGED << total_generated, ba_output, bigarray, oob,
                                    rs_pending, rs_consumed, call, ncalls,
                                    overran >>
               ELSE \E out \in ProcessOutcomes(in_null, ilen, remaining, rs_pending) :
                    LET count == out.odone * sfinfo.channels
                        isOob == OutOfBounds(bigarray, ba_output, count)
                        generated == total_generated + out.odone
                    IN  /\ call' = [in_null |-> in_null, ilen |-> ilen,
                                    out_offset |-> ba_output, olen |-> remaining,
                                    idone |-> out.idone, odone |-> out.odone,
                                    failed |-> out.failed,
                                    generated_before |-> total_generated,
                                    read_before |-> total_read]
                        /\ ncalls' = ncalls + 1
                        /\ total_read' = nread
                        /\ input_finished' = finished
                        /\ IF out.failed
                           THEN \* read.hxx:275-279
                                /\ SoXrReturn(Unexpected(StrError(
                                       "soxr_process failed", "SOXR_ERR")),
                                       used, FALSE)
                                /\ first_failure' =
                                      NoteFailure(first_failure, "soxr_process",
                                                  0, nreads', ncalls')
                                /\ UNCHANGED << total_generated, ba_output,
                                                bigarray, oob, rs_pending,
                                                rs_consumed, overran >>
                           ELSE /\ bigarray' = WriteAt(bigarray, ba_output,
                                        ResampledChunk(total_generated, out.odone,
                                                       sfinfo.channels))
                                /\ oob' = IF isOob THEN oob \cup {"process"} ELSE oob
                                /\ overran' = (overran \/ out.odone > remaining)
                                /\ rs_pending' = out.pending
                                /\ rs_consumed' = rs_consumed + out.idone
                                \* read.hxx:281-285
                                /\ ba_output' = AdvanceCursor(ba_output, out.odone,
                                                              sfinfo.channels)
                                /\ total_generated' = generated
                                /\ IF OverflowDetected(generated, frames)
                                   THEN \* read.hxx:287-291
                                        /\ SoXrReturn(Unexpected(StrError(
                                               "Output buffer overflow detected after soxr_process",
                                               "SOUNDML_ERR")), used, isOob)
                                        /\ first_failure' =
                                              NoteFailure(first_failure,
                                                          "capacity", 0, nreads',
                                                          ncalls')
                                   ELSE /\ UNCHANGED first_failure
                                        /\ pc' \in AfterWrite(isOob,
                                                IF LoopBreak(finished, out.odone)
                                                THEN "soxr_finish"
                                                ELSE "soxr_loop")
                                        /\ resampler' = used
                                        /\ UNCHANGED << result, read_buffer >>
    /\ UNCHANGED << inputVars, fileVars, reader, ba_allocs, frames, zero_filled >>
    /\ UNCHANGED << stubVars, writeVars, concVars, laterVars >>

\* read.hxx:297-322: padding correction, metadata, return
soxr_finish ==
    /\ pc = "soxr_finish"
    /\ LET accurate_frames == AccurateFrames(total_read, sample_rate, sfinfo)
           padding_samples ==
               PaddingFrames(reader.fix, total_generated, accurate_frames)
                   * sfinfo.channels
           isOob == OutOfBounds(bigarray, ba_output, padding_samples)
       IN  /\ bigarray' = WriteAt(bigarray, ba_output,
                                  [j \in 1..padding_samples |-> ZERO])
           /\ oob' = IF isOob THEN oob \cup {"fill"} ELSE oob
           /\ zero_filled' = zero_filled + padding_samples
           /\ SoXrReturn(AudioData(bigarray',
                             SoXrMetadata(reader.fix, total_generated,
                                          accurate_frames, sample_rate, sfinfo)),
                         resampler, isOob)
    /\ UNCHANGED << inputVars, fileVars, sf_error, reader, ba_allocs, frames,
                    loopVars, rs_pending, rs_consumed, call, ncalls, overran,
                    nreads, first_failure >>
    /\ UNCHANGED << frames_decoded, stubVars, writeVars, concVars, laterVars >>

(***************************************************************************)
(* read_audio_file: delete reader; return result (read.hxx:362-366).       *)
(* The reader's copy of the SndfileHandle and the local handle both die;   *)
(* the last one closes the file.                                           *)
(***************************************************************************)
read_audio_file_return ==
    /\ pc = "delete"
    /\ reader' = [reader EXCEPT !.alive = FALSE, !.deletes = @ + 1]
    /\ sf_refs' = sf_refs - 2
    /\ sf_open' = (sf_open /\ sf_refs' > 0)
    /\ sf_closes' = sf_closes + (IF sf_open /\ sf_refs' = 0 THEN 1 ELSE 0)
    /\ pc' = "returned"
    /\ UNCHANGED << inputVars, sf_error, result, bigarray, ba_allocs, frames,
                    read_buffer, loopVars, soxrVars, nreads, oob, zero_filled,
                    first_failure >>
    /\ UNCHANGED << frames_decoded, stubVars, writeVars, concVars, laterVars >>

(***************************************************************************)
(* The error surface (common.hxx:58-106).                                  *)
(***************************************************************************)
\* sf_error_number(code): the text libsndfile has for the code
SfErrorNumber(code) ==
    CASE code = SNDFILE_ERR_NO_ERROR -> "No Error."
      [] code = SNDFILE_ERR_UNRECOGNISED_FORMAT -> "Format not recognised."
      [] code = SNDFILE_ERR_SYSTEM -> "System error."
      [] code = SNDFILE_ERR_MALFORMED_FILE ->
            "Supported file format but file is malformed."
      [] code = SNDFILE_ERR_UNSUPPORTED_ENCODING ->
            "Supported file format but unsupported encoding."
      [] OTHER -> "Internal error."

\* get_error_string (common.hxx:58-75).  std::get<int> and
\* std::get<std::string> throw std::bad_variant_access when the variant
\* holds the other alternative: `thrown` says so.
get_error_string(error) ==
    CASE error.type = "SNDFILE_ERR" ->
            IF error.payload = "int"
            THEN [thrown |-> FALSE, str |-> SfErrorNumber(error.code)]
            ELSE [thrown |-> TRUE, str |-> ""]
      [] error.type \in {"SOXR_ERR", "SOUNDML_ERR"} ->
            IF error.payload = "string"
            THEN [thrown |-> FALSE, str |-> error.msg]
            ELSE [thrown |-> TRUE, str |-> ""]
      [] OTHER -> [thrown |-> FALSE, str |-> "Unknown error"]

\* common.hxx:93
IsFormatErr(err_code) ==
    err_code \in {SNDFILE_ERR_UNRECOGNISED_FORMAT, SNDFILE_ERR_MALFORMED_FILE,
                  SNDFILE_ERR_UNSUPPORTED_ENCODING}

\* raise_caml_exception (common.hxx:82-106): the exception raised, its
\* message being error_string + " in file " + filename; an uncaught
\* std::bad_variant_access terminates the process instead
raise_caml_exception(error, fname) ==
    LET s == get_error_string(error)
        error_string == << s.str, " in file ", fname >>
    IN  IF s.thrown
        THEN [terminated |-> TRUE, exn |-> NoExn]
        ELSE [terminated |-> FALSE,
              exn |->
                CASE error.type = "SNDFILE_ERR" ->
                        IF IsFormatErr(error.code)
                        THEN [tag |-> "soundml.exn.invalid_format",
                              msg |-> error_string]
                        ELSE [tag |-> "soundml.exn.file_not_found",
                              msg |-> error_string]
                  [] error.type = "SOXR_ERR" ->
                        [tag |-> "soundml.exn.resampling_error",
                         msg |-> error_string]
                  [] error.type = "SOUNDML_ERR" ->
                        [tag |-> "soundml.exn.internal_error",
                         msg |-> error_string]
                  [] OTHER ->
                        [tag |-> "soundml.exn.internal_error",
                         msg |-> << "Unknown internal error." >>]]

(***************************************************************************)
(* caml_read_audio_file (read.hxx:382-418): what the stub does with the    *)
(* result of read_audio_file.  The stub never releases the runtime lock.   *)
(***************************************************************************)
\* read.hxx:406-412: the metadata tuple, fields 0 to 4
MetadataTuple(m) ==
    << m.frames, m.channels, m.sample_rate, m.padded_frames, m.format >>

caml_read_audio_file_return ==
    /\ pc = "returned"
    /\ IF result.status = "error"
       THEN \* read.hxx:395-399
            LET raised == raise_caml_exception(result.error, filename)
            IN  /\ pc' = IF raised.terminated THEN "terminated" ELSE "raised"
                /\ exn' = raised.exn
                /\ UNCHANGED returns
       ELSE \* read.hxx:401-417
            /\ returns' = << result.buffer, MetadataTuple(result.metadata) >>
            /\ pc' = "done"
            /\ UNCHANGED exn
    /\ UNCHANGED << inputVars, fileVars, sf_error, reader, result, bigarray,
                    ba_allocs, frames, read_buffer, loopVars, soxrVars, nreads,
                    oob, zero_filled, first_failure, runtime_lock >>
    /\ UNCHANGED << frames_decoded, writeVars, concVars, laterVars >>

Next ==
    \/ read_audio_file_open
    \/ read_audio_file_select
    \/ sndfile_alloc
    \/ sndfile_read_chunk
    \/ sndfile_finish
    \/ soxr_alloc
    \/ soxr_create
    \/ soxr_iteration
    \/ soxr_finish
    \/ read_audio_file_return
    \/ caml_read_audio_file_return

Spec == Init /\ [][Next]_vars

(***************************************************************************)
(* The writer (write.hxx) and the round trip around it: a lossless PCM     *)
(* file is read without resampling, what the read returned is handed to    *)
(* caml_write_audio_file, and the written file is read again.              *)
(***************************************************************************)
\* no read call is made
NoReadCall ==
    /\ filename = ReadFilename
    /\ sfinfo = [err |-> SNDFILE_ERR_NO_ERROR, frames |-> 0, channels |-> 0,
                 samplerate |-> 0, format |-> 0]
    /\ res_typ = RS_NONE
    /\ sample_rate = 0
    /\ fix = TRUE
    /\ pc = "idle"
    /\ FreshRead

\* lossless PCM files: the decoder delivers exactly the nominal frame count
LosslessFiles ==
    { [frames |-> f, channels |-> c, samplerate |-> r, format |-> m,
       samples |-> DecodedChunk(0, f, c)] :
        f \in 1..MaxNominal, c \in 1..MaxChannels, r \in 1..MaxRate,
        m \in 1..MaxFormat }

\* what caml_read_audio_file returns for a lossless file read without
\* resampling: SndfileReader::process_whole copies every decoded chunk in
\* order (read.hxx:109-119), the metadata is that of read.hxx:130, and the
\* stub returns the pair (samples, metadata tuple) (read.hxx:406-417)
PassThroughRead(file) ==
    << file.samples, MetadataTuple(SndfileMetadata(file.frames, file)) >>

\* caml_write_audio_file (write.hxx:80-83): Field(metadata, 0..3)
ExtractVals(metadata) ==
    [nframes |-> metadata[1], sample_rate |-> metadata[2],
     channels |-> metadata[3], format |-> metadata[4]]

\* SndfileHandle(filename, SFM_WRITE, format, channels, samplerate)
\* (write.hxx:85): the error the handle reports.  libsndfile refuses a
\* format it cannot write and a channel count or rate that is not positive;
\* creating the file may fail for the system's reasons.
OpenForWrite(format, channels, samplerate) ==
    IF format \in 1..MaxFormat /\ channels > 0 /\ samplerate > 0
    THEN {SNDFILE_ERR_NO_ERROR, SNDFILE_ERR_SYSTEM}
    ELSE {SNDFILE_ERR_OTHER}

\* sndfile.writef(data, nframes) (write.hxx:50): the frames written and the
\* error the handle is left with
WritefOutcomes(nframes) ==
    { [n |-> n, err |-> e] :
        n \in 0..nframes,
        e \in {SNDFILE_ERR_NO_ERROR, SNDFILE_ERR_SYSTEM, SNDFILE_ERR_OTHER} }

\* the samples of n frames of `channels` channels taken from data; a sample
\* read beyond the end of data is whatever the memory holds
WrittenSamples(data, n, channels) ==
    [i \in 1..(n * channels) |-> IF i <= Len(data) THEN data[i] ELSE UNINIT]

\* mutant of WriteErrorCode: the handle's error passed on as it is
WriteErrorCodeAsIs(err) == err

\* write.hxx:53
WriteErrorCode(err) == IF err # SNDFILE_ERR_NO_ERROR THEN err ELSE SNDFILE_ERR_SYSTEM

\* std::expected<void, Error>{} returned by AudioWriter::write
WriteOk == [status |-> "ok", error |-> NoError, metadata |-> NoMetadata,
            buffer |-> << >>]

\* AudioWriter::write (write.hxx:48-58)
WriteResult(written, nframes, err) ==
    IF written # nframes
    THEN Unexpected(IntError(WriteErrorCode(err), "SNDFILE_ERR"))
    ELSE WriteOk

WriteInit ==
    /\ NoReadCall
    /\ NoConcCalls
    /\ NoLaterCalls
    /\ w_pc = "start"
    /\ w_filename \in Filenames
    /\ w_source \in LosslessFiles
    /\ w_ba_data = PassThroughRead(w_source)[1]
    /\ w_metadata = PassThroughRead(w_source)[2]
    /\ w_vals = NoVals
    /\ w_sf = NoHandle
    /\ w_file = NoFile
    /\ w_written = 0
    /\ w_result = NoResult
    /\ w_exn = NoExn
    /\ w_oob = FALSE
    /\ w_second = NoReturn

\* write.hxx:77-91: extract the values, open the file, build the writer
caml_write_audio_file_open ==
    /\ w_pc = "start"
    /\ w_vals' = ExtractVals(w_metadata)
    /\ \E e \in OpenForWrite(w_vals'.format, w_vals'.channels,
                             w_vals'.sample_rate) :
        IF e # SNDFILE_ERR_NO_ERROR
        THEN \* write.hxx:86-89
             LET raised == raise_caml_exception(IntError(e, "SNDFILE_ERR"),
                                                w_filename)
             IN  /\ w_pc' = IF raised.terminated THEN "terminated" ELSE "raised"
                 /\ w_exn' = raised.exn
                 /\ w_sf' = [w_sf EXCEPT !.refs = 1, !.error = e]
                 /\ UNCHANGED w_file
        ELSE \* the local handle and the writer's copy of it
             /\ w_sf' = [w_sf EXCEPT !.open = TRUE, !.refs = 2]
             /\ w_file' = [frames |-> 0, channels |-> w_vals'.channels,
                           samplerate |-> w_vals'.sample_rate,
                           format |-> w_vals'.format, samples |-> << >>]
             /\ w_pc' = "write"
             /\ UNCHANGED w_exn
    /\ UNCHANGED << readVars, writeArgs, w_written, w_result, w_oob, w_second >>
    /\ UNCHANGED << concVars, laterVars >>

\* write.hxx:92-94 and AudioWriter::write (write.hxx:48-58)
AudioWriter_write ==
    /\ w_pc = "write"
    /\ \E wr \in WritefOutcomes(w_vals.nframes) :
        LET isOob == wr.n * w_vals.channels > Len(w_ba_data)
        IN  /\ w_written' = wr.n
            /\ w_sf' = [w_sf EXCEPT !.error = wr.err]
            /\ w_file' = [w_file EXCEPT
                            !.frames = wr.n,
                            !.samples = WrittenSamples(w_ba_data, wr.n,
                                                       w_vals.channels)]
            /\ w_oob' = isOob
            /\ w_pc' \in AfterWrite(isOob, "written")
            /\ w_result' = IF w_pc' = "crashed" THEN w_result
                           ELSE WriteResult(wr.n, w_vals.nframes, wr.err)
    /\ UNCHANGED << readVars, writeArgs, w_vals, w_exn, w_second >>
    /\ UNCHANGED << concVars, laterVars >>

\* write.hxx:95-103: return unit, or raise the error
caml_write_audio_file_return ==
    /\ w_pc = "written"
    /\ IF w_result.status = "ok"
       THEN \* return Val_unit: the writer and the local handle are destroyed
            /\ w_sf' = [w_sf EXCEPT !.open = FALSE, !.refs = 0,
                                    !.closes = @ + 1]
            /\ w_pc' = "done"
            /\ UNCHANGED w_exn
       ELSE LET raised == raise_caml_exception(w_result.error, w_filename)
            IN  /\ w_pc' = IF raised.terminated THEN "terminated" ELSE "raised"
                /\ w_exn' = raised.exn
                /\ UNCHANGED w_sf
    /\ UNCHANGED << readVars, writeArgs, w_vals, w_file, w_written, w_result,
                    w_oob, w_second >>
    /\ UNCHANGED << concVars, laterVars >>

\* the written file is read again without resampling
round_trip_read ==
    /\ w_pc = "done"
    /\ w_second' = PassThroughRead(w_file)
    /\ w_pc' = "reread"
    /\ UNCHANGED << readVars, writeArgs, w_vals, w_sf, w_file, w_written,
                    w_result, w_exn, w_oob >>
    /\ UNCHANGED << concVars, laterVars >>

WriteNext ==
    \/ caml_write_audio_file_open
    \/ AudioWriter_write
    \/ caml_write_audio_file_return
    \/ round_trip_read

WriteSpec == WriteInit /\ [][WriteNext]_vars

(***************************************************************************)
(* Two concurrent calls of read_audio_file on two different files.  Each   *)
(* call runs the code of read.hxx on its own locals; a step of a call is   *)
(* one library call (readf, memcpy, soxr_process) so that the calls        *)
(* interleave between them.  To compare a call with the same call run      *)
(* alone the libraries are deterministic here: the decoder delivers the    *)
(* file's frames in full chunks, the resampler is a sample-and-hold one.   *)
(* The native blocks a call allocates (its read buffer, its resampler) are *)
(* kept in c_heap.                                                         *)
(***************************************************************************)
Calls == 1..2

\* the k-th sample (k >= 1) of the file with identity id
FileSample(id, k) == k * Cardinality(Calls) + id

\* mutant of OwnedBy: one static block used by every call
OwnedByFirst(c) == 1

\* the block that aligned_alloc (read.hxx:100, read.hxx:225) and
\* soxr_create (read.hxx:207) return to call c: a block of its own
OwnedBy(c) == c

ConcFiles(id) ==
    { [id |-> id, frames |-> f, channels |-> ch, samplerate |-> r, format |-> 1] :
        f \in 1..MaxConcFrames, ch \in {1, MaxChannels}, r \in {1, MaxRate} }

ConcArgs ==
    { [res_typ |-> t, sample_rate |-> r, fix |-> x] :
        t \in ResamplingTypes, r \in {1, MaxRate}, x \in BOOLEAN }

FreshBlock == [read_buffer |-> << >>, rs_input |-> << >>, rs_delivered |-> 0]

FreshCall ==
    [pc |-> "open", kind |-> "none", frames |-> 0, bigarray |-> << >>,
     ba_output |-> 0, total_read |-> 0, total_generated |-> 0,
     input_finished |-> FALSE, frames_read |-> 0, result |-> NoResult]

\* sndfile.readf(read_buffer, SOUNDML_BUFFER_SIZE) on a file that delivers
\* exactly its nominal frames: the number of frames read
FramesDelivered(file, nread) == Min(SOUNDML_BUFFER_SIZE, file.frames - nread)

\* the samples of the n frames of the file that follow its first nread frames
FileChunk(file, nread, n) ==
    [j \in 1..(n * file.channels) |->
        FileSample(file.id, nread * file.channels + j)]

\* the first `count` samples at a read buffer; what lies beyond the samples
\* last stored in it is whatever the memory holds
BufferSamples(buf, count) ==
    [i \in 1..count |-> IF i <= Len(buf) THEN buf[i] ELSE UNINIT]

\* soxr_process of a sample-and-hold resampler: it consumes the ilen frames
\* at `in`, has floor(N * target_sr / input_sr) output frames after N input
\* frames (the ceiling once flushed), and delivers what fits in olen; output
\* frame j repeats input frame floor(j * input_sr / target_sr)
HoldProcess(blk, ilen, olen, flushing, channels, target_sr, input_sr) ==
    LET input == blk.rs_input \o BufferSamples(blk.read_buffer, ilen * channels)
        n_in == Len(input) \div channels
        avail == IF flushing THEN CeilFrames(n_in, target_sr, input_sr)
                 ELSE (n_in * target_sr) \div input_sr
        odone == IF avail > blk.rs_delivered
                 THEN Min(olen, avail - blk.rs_delivered) ELSE 0
        Source(j) == Min(n_in - 1, (j * input_sr) \div target_sr)
    IN  [odone |-> odone,
         samples |->
            [p \in 1..(odone * channels) |->
                LET j == blk.rs_delivered + ((p - 1) \div channels)
                    k == ((p - 1) % channels) + 1
                IN  input[Source(j) * channels + k]],
         blk |-> [blk EXCEPT !.rs_input = input, !.rs_delivered = @ + odone]]

\* one step of a call: its locals st and the block blk it uses, after the step
CallStep(file, args, st, blk) ==
    CASE st.pc = "open" ->
            \* read.hxx:343-357, then the allocations of process_whole
            IF Malformed(file)
            THEN [st |-> [st EXCEPT !.pc = "returned",
                            !.result = Unexpected(IntError(
                                SNDFILE_ERR_MALFORMED_FILE, "SNDFILE_ERR"))],
                  blk |-> blk]
            ELSE IF NeedsResampling(args.res_typ, args.sample_rate, file)
            THEN [st |-> [st EXCEPT !.pc = "rs_readf", !.kind = "SoXrReader",
                            !.frames = EstimatedFrames(file, args.sample_rate),
                            !.bigarray = BaAlloc(
                                EstimatedFrames(file, args.sample_rate),
                                file.channels)],
                  blk |-> FreshBlock]
            ELSE [st |-> [st EXCEPT !.pc = "sf_readf", !.kind = "SndfileReader",
                            !.bigarray = BaAlloc(file.frames, file.channels)],
                  blk |-> FreshBlock]
      [] st.pc = "sf_readf" ->
            \* read.hxx:109, and 121-131 when readf returns 0
            LET n == FramesDelivered(file, st.total_read)
            IN  IF n > 0
                THEN [st |-> [st EXCEPT !.pc = "sf_memcpy", !.frames_read = n],
                      blk |-> [blk EXCEPT !.read_buffer =
                                    FileChunk(file, st.total_read, n)]]
                ELSE [st |-> [st EXCEPT !.pc = "returned",
                                !.result = AudioData(st.bigarray,
                                    SndfileMetadata(st.total_read, file))],
                      blk |-> blk]
      [] st.pc = "sf_memcpy" ->
            \* read.hxx:111-118
            [st |-> [st EXCEPT !.pc = "sf_readf",
                       !.bigarray = WriteAt(@, st.total_read * file.channels,
                            BufferSamples(blk.read_buffer,
                                          st.frames_read * file.channels)),
                       !.total_read = @ + st.frames_read],
             blk |-> blk]
      [] st.pc = "rs_readf" ->
            \* read.hxx:234-253
            LET n == FramesDelivered(file, st.total_read)
            IN  [st |-> [st EXCEPT !.pc = "rs_process", !.frames_read = n,
                           !.input_finished = (n = 0),
                           !.total_read = @ + n],
                 blk |-> IF n > 0
                         THEN [blk EXCEPT !.read_buffer =
                                    FileChunk(file, st.total_read, n)]
                         ELSE blk]
      [] st.pc = "rs_process" ->
            \* read.hxx:255-294
            LET remaining == RemainingOutputFrames(st.frames, st.total_generated)
                ilen == IF st.input_finished THEN 0 ELSE st.frames_read
                out == HoldProcess(blk, ilen, remaining, st.input_finished,
                                   file.channels, args.sample_rate,
                                   file.samplerate)
            IN  IF EstimateInsufficient(remaining, st.input_finished)
                THEN [st |-> [st EXCEPT !.pc = "returned",
                                !.result = Unexpected(StrError(
                                    "Output buffer insufficient based on estimate",
                                    "SOUNDML_ERR"))],
                      blk |-> blk]
                ELSE [st |-> [st EXCEPT
                                !.bigarray = WriteAt(@, st.ba_output, out.samples),
                                !.ba_output = AdvanceCursor(@, out.odone,
                                                            file.channels),
                                !.total_generated = @ + out.odone,
                                !.pc = IF LoopBreak(st.input_finished, out.odone)
                                       THEN "rs_finish"
                                       ELSE IF st.input_finished
                                       THEN "rs_process" ELSE "rs_readf"],
                      blk |-> out.blk]
      [] st.pc = "rs_finish" ->
            \* read.hxx:297-322
            LET accurate_frames ==
                    AccurateFrames(st.total_read, args.sample_rate, file)
                padding_samples ==
                    PaddingFrames(args.fix, st.total_generated, accurate_frames)
                        * file.channels
                padded == WriteAt(st.bigarray, st.ba_output,
                                  [j \in 1..padding_samples |-> ZERO])
            IN  [st |-> [st EXCEPT !.pc = "returned", !.bigarray = padded,
                           !.result = AudioData(padded,
                                SoXrMetadata(args.fix, st.total_generated,
                                             accurate_frames, args.sample_rate,
                                             file))],
                 blk |-> blk]

\* what the call returns when no other call runs
RECURSIVE RunAlone(_, _, _, _)
RunAlone(file, args, st, blk) ==
    IF st.pc = "returned" THEN st.result
    ELSE LET next == CallStep(file, args, st, blk)
         IN  RunAlone(file, args, next.st, next.blk)

ConcInit ==
    /\ NoReadCall
    /\ NoWriteCall
    /\ NoLaterCalls
    /\ c_file \in [Calls -> UNION {ConcFiles(id) : id \in Calls}]
    /\ \A c \in Calls : c_file[c].id = c
    /\ c_args \in [Calls -> ConcArgs]
    /\ c_st = [c \in Calls |-> FreshCall]
    /\ c_heap = [b \in Calls |-> FreshBlock]

\* call c takes its next step
conc_step(c) ==
    /\ c_st[c].pc # "returned"
    /\ LET next == CallStep(c_file[c], c_args[c], c_st[c], c_heap[OwnedBy(c)])
       IN  /\ c_st' = [c_st EXCEPT ![c] = next.st]
           /\ c_heap' = [c_heap EXCEPT ![OwnedBy(c)] = next.blk]
    /\ UNCHANGED << readVars, writeVars, concInputs, laterVars >>

ConcNext == \E c \in Calls : conc_step(c)

ConcSpec == ConcInit /\ [][ConcNext]_vars

(***************************************************************************)
(* Properties.                                                             *)
(***************************************************************************)
Resampling == reader.kind = "SoXrReader"
PassThrough == reader.kind = "SndfileReader"
Success == result.status = "ok"
Failure == result.status = "error"
InternalError == Failure /\ result.error.type = "SOUNDML_ERR"
\* process_whole has returned (to read_audio_file, or the call to its caller)
Returned == pc \in {"delete", "returned"}
\* the recomputed length of read.hxx:298, in the current state
accurate_now == AccurateFrames(total_read, sample_rate, sfinfo)

\* C1: in the resampling loop total_generated never exceeds the estimated
\* capacity; every soxr_process call is handed the region that starts at
\* frame total_generated (sample total_generated * channels) with
\* olen = frames - total_generated; and as long as the resampler keeps
\* odone <= olen, no resampler write targets an offset at or beyond the
\* capacity of the destination.
C1_ProcessWithinCapacity ==
    Resampling =>
        /\ pc \in {"soxr_loop", "soxr_finish"} => total_generated <= frames
        /\ ncalls > 0 =>
            /\ call.out_offset = call.generated_before * sfinfo.channels
            /\ call.olen = frames - call.generated_before
            /\ call.olen >= 0
        /\ ~overran => "process" \notin oob

\* a second process call, on a two-channel file, after output was produced
C1_Witness ==
    /\ pc = "soxr_loop" /\ ncalls >= 2 /\ sfinfo.channels = 2
    /\ call.generated_before > 0 /\ call.odone > 0 /\ ~overran

\* C2: a resampling read whose resampler still holds output while the
\* destination has no capacity left never ends in a success from which
\* that output is missing (no silent truncation): it ends in InternalError
\* unless a decoder or resampler error ended it first.
C2_NoSilentTruncation ==
    /\ (Resampling /\ Success) => rs_pending = 0
    /\ (Resampling /\ Returned /\ rs_pending > 0
            /\ RemainingOutputFrames(frames, total_generated) = 0
            /\ ~(Failure /\ result.error.type \in {"SNDFILE_ERR", "SOXR_ERR"}))
        => InternalError

\* C3: whenever the padding fill is performed, accurate_frames does not
\* exceed the capacity the destination was allocated with, so the fill
\* never targets an offset at or beyond it.
C3_FillWithinCapacity ==
    /\ "fill" \notin oob
    /\ (Resampling /\ zero_filled > 0) => accurate_now <= frames

\* C4: the pass-through copy never targets a sample offset at or beyond
\* nominalFrames * channels.
C4_CopyWithinCapacity == "memcpy" \notin oob

\* C5: a created resampler handle is deleted exactly once before
\* process_whole returns, on every return path; it is never deleted twice
\* and never used once deleted.
C5_ResamplerDestroyedOnce ==
    /\ resampler.deletes <= 1
    /\ ~resampler.misuse
    /\ resampler.state = "live" => resampler.deletes = 0
    /\ (Returned /\ resampler.state # "none") =>
            resampler.state = "deleted" /\ resampler.deletes = 1

\* an error return taken inside the loop, after the handle was created
C5_Witness ==
    /\ pc = "returned" /\ InternalError /\ resampler.deletes = 1
    /\ ncalls > 0

\* C6: when read_audio_file has returned, the read buffer was freed exactly
\* once if it was allocated, the reader was deleted, the resampler handle
\* is not live, and the file is closed with no handle left.
C6_NothingSurvives ==
    /\ read_buffer.frees <= 1
    /\ reader.deletes <= 1
    /\ sf_closes <= 1
    /\ pc = "returned" =>
        /\ read_buffer.state # "allocated"
        /\ read_buffer.state = "freed" => read_buffer.frees = 1
        /\ ~reader.alive
        /\ reader.kind # "none" => reader.deletes = 1
        /\ resampler.state # "live"
        /\ ~sf_open /\ sf_refs = 0
        /\ sf_closes = IF sfinfo.err = SNDFILE_ERR_NO_ERROR THEN 1 ELSE 0

\* a failed resampling read that allocated every entity
C6_Witness ==
    /\ pc = "returned" /\ Resampling /\ Failure
    /\ read_buffer.frees = 1 /\ resampler.deletes = 1 /\ sf_closes = 1

\* C7: the metadata of a successful read has 0 < channels, 0 < sample_rate
\* and frames <= padded_frames.
C7_MetadataInvariant ==
    Success =>
        /\ 0 < result.metadata.channels
        /\ 0 < result.metadata.sample_rate
        /\ result.metadata.frames <= result.metadata.padded_frames

\* C8: on success the destination holds exactly padded_frames * channels
\* samples.
C8_PaddedFramesIsCapacity ==
    Success =>
        Len(result.buffer) = result.metadata.padded_frames * result.metadata.channels

\* C9: after a successful resampling read with padding enabled and
\* accurate_frames > total_generated, the samples of frames
\* [total_generated, accurate_frames) of the output are all zero, the
\* frames before them are the resampler's output in order, and the
\* metadata has frames = total_generated, padded_frames = accurate_frames.
C9_PaddedTailIsZero ==
    (Success /\ Resampling /\ fix /\ accurate_now > total_generated) =>
        /\ \A p \in (total_generated * sfinfo.channels + 1)..(accurate_now * sfinfo.channels) :
                p <= Len(result.buffer) /\ result.buffer[p] = ZERO
        /\ \A p \in 1..(total_generated * sfinfo.channels) :
                p <= Len(result.buffer) /\ result.buffer[p] = ResamplerSample(p)
        /\ result.metadata.frames = total_generated
        /\ result.metadata.padded_frames = accurate_now

\* C10: after a successful resampling read with padding disabled nothing
\* was zero-filled and padded_frames = frames = total_generated.
C10_NoPaddingWhenDisabled ==
    (Success /\ Resampling /\ ~fix) =>
        /\ zero_filled = 0
        /\ result.metadata.frames = total_generated
        /\ result.metadata.padded_frames = total_generated

\* padding disabled where the fill would have had frames to write
C10_Witness ==
    /\ pc = "returned" /\ Success /\ Resampling /\ ~fix
    /\ total_generated > 0 /\ total_generated < accurate_now

\* C11: a resampling read with padding enabled of a file whose decoder
\* delivers a total number of frames different from the nominal count, and
\* that meets no decoder or resampler error (the resampler keeping
\* odone <= olen), completes successfully with
\* padded_frames = ceil(total_read * target_sr / input_sr).
C11_InexactCountStillSucceeds ==
    (Resampling /\ fix /\ Returned /\ resampler.state # "none" /\ ~overran
        /\ total_read # sfinfo.frames
        /\ ~(Failure /\ result.error.type \in {"SNDFILE_ERR", "SOXR_ERR"}))
    => /\ Success
       /\ result.metadata.padded_frames = accurate_now

\* C12 (as stated): a successful read with target rate = native rate has
\* frames equal to the nominal frame count of the file.
C12_FramesIsNominal ==
    (Success /\ sample_rate = sfinfo.samplerate) =>
        result.metadata.frames = sfinfo.frames

\* C12 (amended): a read with target rate = native rate takes the
\* pass-through path: no resampler is created, soxr_process is never
\* called, nothing is zero-filled; on success frames = padded_frames =
\* total_read, the number of frames the decoder delivered, which is the
\* nominal count when the decoder delivers exactly that many.
C12_NativeRateIsPassThrough ==
    (sample_rate = sfinfo.samplerate /\ reader.kind # "none") =>
        /\ PassThrough
        /\ resampler.state = "none" /\ ncalls = 0 /\ zero_filled = 0
        /\ Success =>
            /\ result.metadata.frames = total_read
            /\ result.metadata.padded_frames = result.metadata.frames
            /\ result.metadata.sample_rate = sfinfo.samplerate
            /\ total_read = sfinfo.frames =>
                    result.metadata.frames = sfinfo.frames

\* a quality preset was asked for at the native rate, the decoder delivered
\* fewer frames than the nominal count, in more than one chunk
C12_Witness ==
    /\ pc = "returned" /\ Success /\ PassThrough /\ res_typ # RS_NONE
    /\ sample_rate = sfinfo.samplerate
    /\ nreads >= 3 /\ total_read > 0 /\ total_read < sfinfo.frames

\* C13: the strategy is selected exactly once per call: the pass-through
\* reader when res_typ = RS_NONE or sample_rate = the file's rate, the
\* resampling reader otherwise; once selected the reader's kind never
\* changes, and the selection point is never entered a second time.
C13_StrategySelectedOnce ==
    /\ [](reader.kind # "none" =>
            /\ (res_typ = RS_NONE \/ sample_rate = sfinfo.samplerate)
                    => reader.kind = "SndfileReader"
            /\ (res_typ # RS_NONE /\ sample_rate # sfinfo.samplerate)
                    => reader.kind = "SoXrReader")
    /\ [][ /\ reader.kind # "none" => reader'.kind = reader.kind
           /\ pc' = "select" => pc = "start"
           /\ pc = "select" => (pc' # "select" /\ reader.kind = "none"
                                    /\ reader'.kind # "none") ]_vars

\* both readers at work: a preset at another rate selected the resampling
\* reader, which ran its loop and was deleted
C13_Witness ==
    /\ pc = "returned" /\ reader.kind = "SoXrReader" /\ reader.deletes = 1
    /\ res_typ # RS_NONE /\ sample_rate # sfinfo.samplerate /\ ncalls > 0

\* C14: a read with target sample rate 0, whatever the quality preset,
\* takes the pass-through path and, unless the decoder fails, returns the
\* file at its native rate.
C14_ZeroRateMeansNoResampling ==
    (sample_rate = 0 /\ reader.kind # "none") =>
        /\ PassThrough
        /\ resampler.state = "none" /\ ncalls = 0
        /\ (Returned /\ ~(Failure /\ result.error.type = "SNDFILE_ERR")
                /\ read_buffer.state # "none") =>
                Success /\ result.metadata.sample_rate = sfinfo.samplerate

\* C15: a file that opened but reports a non-positive frame count, channel
\* count, sample rate or format code, each of them on its own, makes the
\* call return the SNDFILE_ERR error SF_ERR_MALFORMED_FILE at once: no
\* destination was allocated, no reader constructed, no resampler created,
\* no read buffer allocated, nothing read.
C15_MalformedRejectedFirst ==
    LET Rejected ==
            /\ pc \in {"returned", "raised"}
            /\ result = Unexpected(IntError(SNDFILE_ERR_MALFORMED_FILE, "SNDFILE_ERR"))
            /\ ba_allocs = 0 /\ bigarray = << >>
            /\ reader.kind = "none" /\ reader.deletes = 0
            /\ resampler.state = "none" /\ read_buffer.state = "none"
            /\ nreads = 0 /\ ncalls = 0
    IN  (pc # "start" /\ sfinfo.err = SNDFILE_ERR_NO_ERROR) =>
            /\ sfinfo.frames <= 0 => Rejected
            /\ sfinfo.channels <= 0 => Rejected
            /\ sfinfo.samplerate <= 0 => Rejected
            /\ sfinfo.format <= 0 => Rejected

\* only the format code is non-positive, and resampling was asked for
C15_Witness ==
    /\ pc = "returned" /\ sfinfo.err = SNDFILE_ERR_NO_ERROR
    /\ sfinfo.format <= 0 /\ sfinfo.frames > 0 /\ sfinfo.channels > 0
    /\ sfinfo.samplerate > 0
    /\ res_typ # RS_NONE /\ sample_rate # sfinfo.samplerate
    /\ Failure /\ result.error.code = SNDFILE_ERR_MALFORMED_FILE

\* the category the claim gives an error kind
CategoryOf(error) ==
    CASE error.type = "SNDFILE_ERR" ->
            IF error.code \in {SNDFILE_ERR_UNRECOGNISED_FORMAT,
                               SNDFILE_ERR_MALFORMED_FILE,
                               SNDFILE_ERR_UNSUPPORTED_ENCODING}
            THEN "soundml.exn.invalid_format"
            ELSE "soundml.exn.file_not_found"
      [] error.type = "SOXR_ERR" -> "soundml.exn.resampling_error"
      [] OTHER -> "soundml.exn.internal_error"

\* C18: a failed read surfaces as a host exception of the category of its
\* error kind (invalid_format for a SourceError with an unrecognised-format,
\* malformed-file or unsupported-encoding code, file_not_found for every
\* other SourceError, resampling_error for a ResampleError, internal_error
\* for an InternalError) whose message ends with the file name.
C18_ErrorKindToCategory ==
    (Failure /\ pc \in {"raised", "terminated"}) =>
        /\ pc = "raised"
        /\ exn.tag = CategoryOf(result.error)
        /\ Len(exn.msg) > 0 /\ exn.msg[Len(exn.msg)] = filename

\* C19: whenever the call is inside the read loop of a reader the runtime
\* lock is released, and it is held whenever the stub touches a value of
\* the host (before the loops start and once process_whole has returned).
C19_LockReleasedAroundLoop ==
    /\ pc \in {"sndfile_loop", "soxr_loop"} => runtime_lock = "released"
    /\ pc \notin {"sndfile_loop", "soxr_loop"} => runtime_lock = "held"

\* C16: AudioWriter::write returns ok exactly when the number of frames
\* written equals metadata.frames; otherwise it returns a SNDFILE_ERR error
\* carrying the handle's error code when one is set and SF_ERR_SYSTEM when
\* none is.
C16_WriteOkIffAllWritten ==
    w_result.status # "none" =>
        /\ w_result.status = "ok" <=> w_written = w_metadata[1]
        /\ w_result.status # "ok" =>
            w_result.error =
                IntError(IF w_sf.error # SNDFILE_ERR_NO_ERROR THEN w_sf.error
                         ELSE SNDFILE_ERR_SYSTEM, "SNDFILE_ERR")

\* a short write of some frames that left no error on the handle
C16_Witness ==
    /\ w_pc = "raised" /\ w_written > 0 /\ w_written < w_metadata[1]
    /\ w_sf.error = SNDFILE_ERR_NO_ERROR
    /\ w_result.error.code = SNDFILE_ERR_SYSTEM

\* C17: the writer takes frames, channels, sample rate and format from the
\* fields of the metadata tuple (frames, channels, sampleRate, paddedFrames,
\* format) the reader returned, and the written file read again has the
\* frame count, channel count, sample rate and samples of the first read.
C17_RoundTrip ==
    /\ w_pc \notin {"idle", "start"} =>
        /\ w_vals.nframes = w_metadata[1]
        /\ w_vals.channels = w_metadata[2]
        /\ w_vals.sample_rate = w_metadata[3]
        /\ w_vals.format = w_metadata[5]
    /\ w_pc = "reread" =>
        /\ w_second[1] = w_ba_data
        /\ w_second[2][1] = w_metadata[1]
        /\ w_second[2][2] = w_metadata[2]
        /\ w_second[2][3] = w_metadata[3]

Constructions == 1..2

\* the resampling_t values a SoXrReader can be constructed with
ReaderQualities == RS_SOXR_QQ..RS_SRC_LINEAR

\* the soxr recipe named after each quality of resampling_t, as the comments
\* of the enumeration give it ('Quick', 'Low', 'Medium', 'High quality',
\* 'Very high quality'); the enumerators without a recipe are given SOXR_VHQ
RecipeOfSameName(type) ==
    CASE type = RS_SOXR_VHQ -> "SOXR_VHQ"
      [] type = RS_SOXR_HQ -> "SOXR_HQ"
      [] type = RS_SOXR_MQ -> "SOXR_MQ"
      [] type = RS_SOXR_LQ -> "SOXR_LQ"
      [] type = RS_SOXR_QQ -> "SOXR_QQ"
      [] OTHER -> "SOXR_VHQ"

\* the switch of get_recipe_type: four cases and the default
get_recipe_type(type) ==
    CASE type = RS_SOXR_VHQ -> "SOXR_VHQ"
      [] type = RS_SOXR_HQ -> "SOXR_HQ"
      [] type = RS_SOXR_MQ -> "SOXR_MQ"
      [] type = RS_SOXR_LQ -> "SOXR_LQ"
      [] OTHER -> "SOXR_VHQ"

RecipeInit ==
    /\ NoReadCall
    /\ NoWriteCall
    /\ NoConcCalls
    /\ NoStretchCall
    /\ q_quality \in [Constructions -> ReaderQualities]
    /\ q_recipe = [k \in Constructions |-> "unset"]

\* SoXrReader::SoXrReader: quality_spec takes the recipe of the quality
SoXrReader_construct(k) ==
    /\ q_recipe[k] = "unset"
    /\ q_recipe' = [q_recipe EXCEPT ![k] = get_recipe_type(q_quality[k])]
    /\ UNCHANGED << readVars, writeVars, concVars, q_quality, stretchVars >>

RecipeNext == \E k \in Constructions : SoXrReader_construct(k)

RecipeSpec == RecipeInit /\ [][RecipeNext]_vars

\* the five named presets and the soxr recipe of the same name
NamedQualities ==
    {RS_SOXR_QQ, RS_SOXR_LQ, RS_SOXR_MQ, RS_SOXR_HQ, RS_SOXR_VHQ}

(***************************************************************************)
(* C21: each of the five named qualities (quick, low, medium, high, very   *)
(* high) selects the recipe of its own name, so two readers constructed    *)
(* with two different named qualities never hold the same recipe.          *)
(* Violated: get_recipe_type has no case for RS_SOXR_QQ, which takes the   *)
(* default and selects SOXR_VHQ, the recipe of RS_SOXR_VHQ.                *)
(***************************************************************************)
C21_PresetsAreOneToOne ==
    \A k \in DOMAIN q_recipe : \A l \in DOMAIN q_recipe :
        (/\ q_recipe[k] # "unset"
         /\ q_recipe[l] # "unset"
         /\ q_quality[k] \in NamedQualities
         /\ q_quality[l] \in NamedQualities)
        => /\ q_recipe[k] = RecipeOfSameName(q_quality[k])
           /\ (q_quality[k] # q_quality[l] => q_recipe[k] # q_recipe[l])

(***************************************************************************)
(* C22: when a write call fails, the file handle the call opened is        *)
(* released (closed, no reference left) before the host exception is       *)
(* raised.  Violated on a short write: raise_caml_exception leaves         *)
(* caml_write_audio_file by the host's non-local exit while the local      *)
(* SndfileHandle and the writer's copy of it are alive, so neither         *)
(* destructor runs and the file opened at write.hxx:85 stays open.         *)
(* (A failing read closes its file: read_audio_file has returned, and its  *)
(* handle is destroyed, before caml_read_audio_file raises; see C6.)       *)
(***************************************************************************)
C22_HandleReleasedBeforeRaise ==
    w_pc \in {"raised", "terminated"} => ~w_sf.open

(***************************************************************************)
(* The stretch and pitch-shift stubs (rubberband_stubs.cxx).  The two      *)
(* entry points differ only in the setting handed to the stretcher         *)
(* (setTimeRatio / setPitchScale); StretchSpec is one call of either on a  *)
(* buffer a read returned.  RubberBand is an external library: it is       *)
(* given one array of num_samples samples per channel and hands back, per  *)
(* channel, at most the number of samples asked for.                       *)
(***************************************************************************)
MaxStretchFrames == 3
MaxAvailable == 2

\* the sample of frame i (from 0) on channel c (from 0) of the audio read
FrameSample(i, c) == << "in", i, c >>

\* the sample i (from 0) the stretcher delivers on channel c (from 0)
StretchedSample(i, c) == << "out", i, c >>

\* the dimensions the reader gives its bigarray (read.hxx:181-190, 82-91)
LayoutDims(nframes, channels) ==
    IF channels > 1 THEN << nframes, channels >> ELSE << nframes >>

\* the bigarray a read of nframes frames returns: readf delivers the
\* frames interleaved, frame i channel c at offset i * channels + c
ReadBigarray(nframes, channels) ==
    [dims |-> LayoutDims(nframes, channels),
     data |-> [j \in 1..(nframes * channels) |->
                 FrameSample((j - 1) \div channels, (j - 1) % channels)]]

\* the float at offset k (from 0) of a buffer, UNINIT beyond its end
FloatAt(data, k) == IF k + 1 \in DOMAIN data THEN data[k + 1] ELSE UNINIT

\* inputChannels[c] = input_data + (c * num_samples), read for num_samples
InputChannel(data, c, num_samples, channels) ==
    [i \in 1..num_samples |-> FloatAt(data, c * num_samples + (i - 1))]

\* dims[c] = totalSamples for each of `channels` dimensions
OutputDims(retrieved, channels) ==
    [c \in 1..channels |-> retrieved * channels]

\* the number of elements a bigarray of these dimensions declares: the
\* product of dims[0..num_dims-1] that caml_ba_alloc is given
RECURSIVE DeclaredElements(_)
DeclaredElements(dims) ==
    IF dims = << >>
    THEN 1
    ELSE dims[1] * DeclaredElements(Tail(dims))

\* output_data[i * channels + c] = outputChannels[c][i]  (std::copy for mono)
OutputData(retrieved, channels) ==
    [j \in 1..(retrieved * channels) |->
        StretchedSample((j - 1) \div channels, (j - 1) % channels)]

StretchInit ==
    /\ NoReadCall
    /\ NoWriteCall
    /\ NoConcCalls
    /\ NoConstructions
    /\ rb_entry \in {"time_stretch", "pitch_shift"}
    /\ \E f \in 0..MaxStretchFrames : \E c \in 1..MaxChannels :
        /\ rb_input = ReadBigarray(f, c)
        /\ rb_channels = c
    /\ rb_pc = "start"
    /\ rb_fed = << >>
    /\ rb_size = 0
    /\ rb_retrieved = 0
    /\ rb_output = NoBigarray
    /\ rb_exn = NoExn

\* rubberband_stubs.cxx:50-66: the arguments, the per-channel pointers,
\* study and process
rubberband_feed ==
    /\ rb_pc = "start"
    /\ LET num_samples == rb_input.dims[1]
       IN  rb_fed' = [c \in 1..rb_channels |->
                        InputChannel(rb_input.data, c - 1, num_samples,
                                     rb_channels)]
    /\ rb_pc' = "fed"
    /\ UNCHANGED << stretchArgs, rb_size, rb_retrieved, rb_output, rb_exn >>
    /\ UNCHANGED << readVars, writeVars, concVars, recipeVars >>

\* rubberband_stubs.cxx:68-82: available() (getSamplesRequired() when it
\* is 0), the output vectors, retrieve
rubberband_retrieve ==
    /\ rb_pc = "fed"
    /\ \E available \in 0..MaxAvailable : \E required \in 0..1 :
        /\ rb_size' = IF available = 0 THEN required ELSE available
        /\ rb_retrieved' \in 0..rb_size'
    /\ rb_pc' = "retrieved"
    /\ UNCHANGED << stretchArgs, rb_fed, rb_output, rb_exn >>
    /\ UNCHANGED << readVars, writeVars, concVars, recipeVars >>

\* rubberband_stubs.cxx:84-110: malloc, interleave, dims, caml_ba_alloc
rubberband_return ==
    /\ rb_pc = "retrieved"
    /\ \E allocated \in BOOLEAN :
        IF allocated
        THEN /\ rb_output' = [dims |-> OutputDims(rb_retrieved, rb_channels),
                              data |-> OutputData(rb_retrieved, rb_channels)]
             /\ rb_pc' = "done"
             /\ UNCHANGED rb_exn
        ELSE \* malloc returned NULL: caml_failwith
             /\ rb_exn' = [tag |-> "Failure",
                           msg |-> << "Failed to allocate memory for output data" >>]
             /\ rb_pc' = "raised"
             /\ UNCHANGED rb_output
    /\ UNCHANGED << stretchArgs, rb_fed, rb_size, rb_retrieved >>
    /\ UNCHANGED << readVars, writeVars, concVars, recipeVars >>

StretchNext ==
    \/ rubberband_feed
    \/ rubberband_retrieve
    \/ rubberband_return

StretchSpec == StretchInit /\ [][StretchNext]_vars

(***************************************************************************)
(* C23: the stretch and pitch-shift stubs use the reader's layout: each    *)
(* channel handed to the stretcher is that channel of the interleaved      *)
(* input (frame i of channel c at offset i * channels + c), and the        *)
(* returned bigarray holds the retrieved frames interleaved with the       *)
(* dimensions (frames, channels), or (frames) for mono.                    *)
(* Violated for more than one channel: the stubs read the input as planar  *)
(* (channel c at offset c * num_samples) and give the output `channels`    *)
(* dimensions of retrieved * channels each.                                *)
(***************************************************************************)
C23_OneSampleLayout ==
    /\ rb_pc \in {"fed", "retrieved", "done", "raised"} =>
         \A c \in 1..rb_channels :
            rb_fed[c] = [i \in 1..rb_input.dims[1] |-> FrameSample(i - 1, c - 1)]
    /\ rb_pc = "done" =>
         /\ rb_output.dims = LayoutDims(rb_retrieved, rb_channels)
         /\ \A i \in 0..(rb_retrieved - 1) : \A c \in 0..(rb_channels - 1) :
               FloatAt(rb_output.data, i * rb_channels + c) = StretchedSample(i, c)

(***************************************************************************)
(* C24: in the resampling reader the phase is monotone.  Once a read has   *)
(* returned 0 frames (input_finished) no further read is made; the process *)
(* call of the iteration whose read returned 0 and every later process     *)
(* call pass null input of length 0; every process call made while input   *)
(* is not finished passes the chunk just read, non-null, its length the    *)
(* number of frames that read returned.                                    *)
(***************************************************************************)
C24_PhaseIsMonotone ==
    [][ pc = "soxr_loop" =>
          /\ input_finished => (input_finished' /\ nreads' = nreads)
          /\ ncalls' = ncalls + 1 =>
               IF input_finished'
               THEN call'.in_null /\ call'.ilen = 0
               ELSE /\ ~call'.in_null
                    /\ nreads' = nreads + 1
                    /\ call'.ilen > 0
                    /\ call'.ilen = total_read' - total_read ]_vars

\* flushing after streaming: chunks were processed, then a read returned 0
\* and a process call with null input followed
C24_Witness ==
    /\ pc = "soxr_loop"
    /\ input_finished
    /\ total_read > SOUNDML_BUFFER_SIZE
    /\ ncalls > nreads
    /\ call.in_null
    /\ call.odone > 0

(***************************************************************************)
(* C25: the resampling reader leaves its loop for the final phase (Done)   *)
(* only when the last process call was made in flush mode (null input)     *)
(* and returned odone = 0; no process call is made once the loop is left;  *)
(* and a process call that returns odone = 0 while input is not finished   *)
(* leaves the reader in the loop.                                          *)
(***************************************************************************)
C25_DoneOnlyAfterEmptyFlush ==
    /\ [](pc = "soxr_finish" =>
            /\ ncalls > 0
            /\ input_finished
            /\ call.in_null
            /\ ~call.failed
            /\ call.odone = 0)
    /\ [][ pc # "soxr_loop" => ncalls' = ncalls ]_vars
    /\ [][ (/\ pc = "soxr_loop"
            /\ ncalls' = ncalls + 1
            /\ ~call'.failed
            /\ call'.odone = 0
            /\ ~input_finished') => pc' = "soxr_loop" ]_vars

\* Done reached with nothing generated: the calls made on the chunks read
\* returned odone = 0 without ending the loop, the flush call ended it
C25_Witness ==
    /\ pc = "soxr_finish"
    /\ total_read > 0
    /\ ncalls >= 2
    /\ total_generated = 0
    /\ call.in_null
    /\ call.odone = 0

(***************************************************************************)
(* A call that is scheduled runs on: the steps of read_audio_file are      *)
(* taken one after the other by the calling thread until it returns.       *)
(***************************************************************************)
FairSpec == Spec /\ WF_vars(Next)

\* the call has reached Done (the loop of the resampling reader is left, or
\* a result is returned) or Failed (an Error is returned)
DoneOrFailed == pc = "soxr_finish" \/ result # NoResult

C27_NoProcessWithoutCapacity ==
    /\ (ncalls > 0 /\ ~call.in_null) => call.olen > 0
    /\ (Resampling /\ pc = "soxr_loop" /\ ncalls > 0) =>
          \* every chunk read so far was handed to a process call
          call.read_before + call.ilen = total_read
    /\ (/\ Resampling
        /\ result = Unexpected(StrError(
                        "Output buffer insufficient based on estimate",
                        "SOUNDML_ERR"))) =>
          /\ InternalError
          /\ ~input_finished
          /\ total_generated = frames
          /\ first_failure.kind = "capacity"
          \* the frames of the last read were handed to no process call
          /\ first_failure.ncalls = ncalls
          /\ total_read > 0
          /\ (ncalls > 0 => call.read_before + call.ilen < total_read)

\* the estimate was used up by the first chunk; a second chunk was read and
\* the call failed with no process call made on it
C27_Witness ==
    /\ Resampling
    /\ pc = "delete"
    /\ first_failure.kind = "capacity"
    /\ ~input_finished
    /\ ncalls = 1
    /\ nreads = 2
    /\ frames > 0
    /\ InternalError

(***************************************************************************)
(* C28: in both readers a decode error reported by a chunk read makes the  *)
(* call return an error of type SNDFILE_ERR carrying the decoder's code,   *)
(* never a success; in the resampling reader the chunk of the failing      *)
(* read is handed to no process call.                                      *)
(* Violated by the pass-through reader: its loop (read.hxx:109-119) looks  *)
(* at the frame count only and sndfile.error() is read once, after the     *)
(* loop (read.hxx:121); a read that fails part-way (n > 0 frames, error    *)
(* set) is followed by further reads, the error it left is gone when the   *)
(* last read returns 0 cleanly, and the call returns AudioData.            *)
(***************************************************************************)
C28_DecodeErrorIsReturned ==
    first_failure.kind = "readf" =>
        /\ Returned =>
             result = Unexpected(IntError(first_failure.code, "SNDFILE_ERR"))
        /\ returns = NoReturn
        /\ Resampling => /\ ncalls = first_failure.ncalls
                         /\ ncalls = nreads - 1
                         /\ (ncalls > 0 =>
                               call.read_before + call.ilen = total_read)

(***************************************************************************)
(* C29: a failure of soxr_create returns an error of type SOXR_ERR before  *)
(* any chunk is read from the decoder; a process call that reports an      *)
(* error returns an error of type SOXR_ERR and leaves the write cursor     *)
(* and total_generated where they were before that call.                   *)
(***************************************************************************)
C29_ResamplerFailureIsReturned ==
    /\ first_failure.kind = "soxr_create" =>
          /\ nreads = 0
          /\ ncalls = 0
          /\ read_buffer.state = "none"
          /\ Returned => (Failure /\ result.error.type = "SOXR_ERR")
    /\ (ncalls > 0 /\ call.failed) =>
          /\ first_failure.kind = "soxr_process"
          /\ ba_output = call.out_offset
          /\ total_generated = call.generated_before
          /\ pc # "soxr_loop"
          /\ Returned => (Failure /\ result.error.type = "SOXR_ERR")

\* a process call failed, having written a frame, after an earlier call
\* had produced frames
C29_Witness ==
    /\ Returned
    /\ ncalls >= 2
    /\ call.failed
    /\ call.odone > 0
    /\ total_generated > 0
    /\ result.error.type = "SOXR_ERR"

(***************************************************************************)
(* C30: no retry and no partial result.  After the first failing call      *)
(* (open, chunk read, soxr_create, soxr_process) or capacity violation of  *)
(* an invocation, no further readf or soxr_process call is made, and the   *)
(* call returns an Error with neither buffer nor metadata; nothing is      *)
(* handed to the host.                                                     *)
(* Violated by the pass-through reader, by the defect of C28: after a      *)
(* read that failed part-way its loop reads again, and the call can        *)
(* return AudioData.                                                       *)
(***************************************************************************)
C30_NoRetryNoPartialResult ==
    first_failure.kind # "none" =>
        /\ nreads = first_failure.nreads
        /\ ncalls = first_failure.ncalls
        /\ Returned => /\ Failure
                       /\ result.buffer = << >>
                       /\ result.metadata = NoMetadata
        /\ returns = NoReturn

(***************************************************************************)
(* C31: the resampling reader allocates the destination exactly once,      *)
(* with a capacity of ceil(nominal frames * target rate / native rate)     *)
(* frames, before the resampler is created and before the first chunk is   *)
(* read; afterwards the destination is never allocated again and its       *)
(* capacity never changes.                                                 *)
(***************************************************************************)
C31_DestinationAllocatedOnce ==
    Resampling =>
        /\ ba_allocs <= 1
        /\ pc = "soxr_alloc" => ba_allocs = 0
        /\ (pc # "soxr_alloc" \/ resampler.state # "none" \/ nreads > 0
              \/ ncalls > 0) => ba_allocs = 1
        /\ ba_allocs = 1 =>
              \* frames is the least integer >= nominal * target / native
              /\ frames * sfinfo.samplerate >= sfinfo.frames * sample_rate
              /\ (frames - 1) * sfinfo.samplerate < sfinfo.frames * sample_rate
              /\ Len(bigarray) = frames * sfinfo.channels

\* the loop has run over several chunks and calls on a destination whose
\* capacity had to be rounded up
C31_Witness ==
    /\ Resampling
    /\ pc = "soxr_finish"
    /\ ba_allocs = 1
    /\ nreads >= 2
    /\ ncalls >= 2
    /\ total_generated > 0
    /\ (sfinfo.frames * sample_rate) % sfinfo.samplerate # 0

(***************************************************************************)
(* C32: on success the metadata carries the channel count and the format   *)
(* code of the file unchanged; its sample_rate is the target rate after    *)
(* the resampling reader and the native rate after the pass-through        *)
(* reader; its frames is total_generated, respectively total_read.  The    *)
(* tuple handed to the host carries the same values.                       *)
(***************************************************************************)
C32_MetadataCarriesSource ==
    /\ Success =>
          /\ result.metadata.channels = sfinfo.channels
          /\ result.metadata.format = sfinfo.format
          /\ Resampling => /\ result.metadata.sample_rate = sample_rate
                           /\ result.metadata.frames = total_generated
          /\ PassThrough => /\ result.metadata.sample_rate = sfinfo.samplerate
                            /\ result.metadata.frames = total_read
    /\ returns # NoReturn =>
          /\ Success
          /\ returns[2][1] = result.metadata.frames
          /\ returns[2][2] = result.metadata.channels
          /\ returns[2][3] = result.metadata.sample_rate
          /\ returns[2][5] = result.metadata.format

\* a resampled read handed to the host: the rate differs from the native
\* one and fewer frames were generated than the destination has room for
C32_Witness ==
    /\ pc = "done"
    /\ Resampling
    /\ returns # NoReturn
    /\ returns[2][3] # sfinfo.samplerate
    /\ total_generated > 0
    /\ total_generated < frames
    /\ sfinfo.channels > 1


\* C33: at the start of every iteration of the resampling loop the write
\* cursor of the destination is at sample offset total_generated * channels
\* and total_read is the sum of the frame counts the chunk reads returned;
\* the last output was stored at the end of the ones before it and the
\* cursor is now at its end, so that the outputs are contiguous.
C33_CursorTracksGenerated ==
    (Resampling /\ pc = "soxr_loop") =>
        /\ ba_output = total_generated * sfinfo.channels
        /\ total_read = frames_decoded
        /\ ncalls > 0 =>
              /\ ~call.failed
              /\ call.out_offset = call.generated_before * sfinfo.channels
              /\ call.generated_before + call.odone = total_generated
              /\ call.out_offset + call.odone * sfinfo.channels = ba_output

C33_Witness ==
    /\ Resampling
    /\ pc = "soxr_loop"
    /\ nreads >= 2
    /\ ncalls >= 2
    /\ total_read > SOUNDML_BUFFER_SIZE
    /\ call.generated_before > 0
    /\ call.odone > 0
    /\ sfinfo.channels > 1


\* C34: when the resampling reader has left its loop, the frames the
\* process calls reported as consumed add up to total_read: no decoded
\* frame was dropped on its way to the resampler, also when a call consumed
\* fewer frames than it was given.
C34_AllDecodedFramesConsumed ==
    (Resampling /\ pc = "soxr_finish") => rs_consumed = total_read


\* C35: as long as every process call produced no more frames than the
\* capacity it was given, total_generated stays within the estimate, the
\* remaining capacity frames - total_generated is never below 0, and the
\* check after the call does not fire: no "overflow detected" error is
\* returned.
C35_NoOverflowWithoutOverrun ==
    (Resampling /\ ~overran) =>
        /\ total_generated <= frames
        /\ RemainingOutputFrames(frames, total_generated) >= 0
        /\ ncalls > 0 => call.olen >= 0
        /\ Failure =>
              result.error.msg #
                  "Output buffer overflow detected after soxr_process"

C35_Witness ==
    /\ Resampling
    /\ ~overran
    /\ pc = "soxr_finish"
    /\ ncalls >= 3
    /\ call.generated_before > 0
    /\ total_generated = frames
    /\ frames > 1


\* C36: every error a read returns carries the payload its kind requires,
\* an integer code for SNDFILE_ERR and a string for SOXR_ERR and
\* SOUNDML_ERR, so that get_error_string turns it into a message without
\* throwing.
C36_ErrorPayloadMatchesKind ==
    Failure =>
        /\ result.error.type = "SNDFILE_ERR" => result.error.payload = "int"
        /\ result.error.type \in {"SOXR_ERR", "SOUNDML_ERR"} =>
              result.error.payload = "string"
        /\ ~get_error_string(result.error).thrown


\* C37: the array a time-stretch or pitch-shift call returns declares as
\* many elements as its backing buffer holds: the product of its dimensions
\* is retrieved * channels, the length of output_data.
C37_DeclaredSizeIsBufferSize ==
    rb_pc = "done" =>
        /\ DeclaredElements(rb_output.dims) = rb_retrieved * rb_channels
        /\ DeclaredElements(rb_output.dims) = Len(rb_output.data)

=============================================================================
